---- MODULE Spec2Model ----
(***************************************************************************)
(* Active-learning sample selection for binary image segmentation.         *)
(*                                                                         *)
(* Two variants of one engine are modelled side by side:                   *)
(*   "qbc" - src/QBC_faster.py (Fisher information + committee variance)   *)
(*   "unc" - src/UncertaintySampling_faster_full.py (Fisher + entropy)     *)
(*                                                                         *)
(* Spec        the simulation loop of both scripts, small pools            *)
(* SpecE2E     the same loop on the pool of 10 of src/QBC_faster.py        *)
(* SpecSelect  the batch selectors as functions of their arguments         *)
(* SpecTrainer one call of evaluate_model_on_subset, batch by batch         *)
(* SpecScores  the Fisher and the entropy scoring loops, sample by sample   *)
(*                                                                         *)
(* The segmentation network and the image files are outside the scripts:   *)
(* what a forward/backward pass yields for a sample is drawn from a        *)
(* bounded set of numbers at the place the script calls the network.       *)
(***************************************************************************)
EXTENDS Integers, Sequences, FiniteSets

VARIABLES
    variant,            \* which script runs: "qbc" or "unc"
    device,             \* torch.device chosen at import: "cpu" or "cuda"
    cfg,                \* initial_size, batch_size, max_size, n_simulations, pool
    pc,                 \* position of the script in the simulation loop
    sim,                \* loop variable of `for sim in range(n_simulations)`
    i,                  \* loop variable of `for i, size in enumerate(dataset_sizes)`
    labeled_indices,
    unlabeled_indices,
    warm_model,
    committee,
    nextId,             \* identity given to the next model object constructed
    dice,               \* (train_dice, test_dice) bound by the last TRAIN+EVAL
    train_results,
    test_results,
    saved,              \* checkpoint files written, keyed (sim, size)
    scoredBy,           \* the model objects that scored the last SELECT
    handed,             \* the model object handed to the round's TRAIN+EVAL
    selects,            \* SELECT steps executed in the current simulation
    sb                  \* one call of a selector, the trainer or a scoring function

vars == << variant, device, cfg, pc, sim, i, labeled_indices, unlabeled_indices,
           warm_model, committee, nextId, dice, train_results, test_results,
           saved, scoredBy, handed, selects, sb >>

loopVars == << variant, device, cfg, pc, sim, i, labeled_indices,
               unlabeled_indices, warm_model, committee, nextId, dice,
               train_results, test_results, saved, scoredBy, handed, selects >>

----------------------------------------------------------------------------
(* Bounds of the model *)

PoolSize == 4       \* samples in the pool of Spec
MaxInit == 2        \* largest initial_size of Spec
MaxBatch == 2       \* largest batch_size of Spec
NSims == 2          \* n_simulations of Spec
MaxScore == 1       \* SpecSelect: the scores drawn lie in 0..MaxScore
MaxIdx == 2         \* SpecSelect: sample indices lie in 0..MaxIdx
MaxLen == 2         \* SpecSelect: longest unlabeled list
MaxK == 2           \* SpecSelect: largest batch size asked for
NPixels == 2        \* SpecTrainer, SpecScores: pixels of an image tensor
MaxTest == 1        \* SpecTrainer: samples of the held-out test set
MaxGrad == 1        \* SpecScores: a parameter's gradient lies in -MaxGrad..MaxGrad

(* Program constants *)

USE_WARM_START == TRUE
RESET_EVERY_N == 3
CommitteeSize == 3
fisher_weight == 1
secondary_weight == 1
E2EPool == 10
E2EInitial == 1
E2EBatch == 1
E2EMax == 8
LoaderBatch == 4
DiceUnit == 100000000

Variants == {"qbc", "unc"}
Devices == {"cpu", "cuda"}

----------------------------------------------------------------------------
(* Python lists, dicts and sorting *)

SeqSet(s) == { s[k] : k \in 1..Len(s) }

NoDup(s) == \A a, b \in 1..Len(s) : a # b => s[a] # s[b]

Min2(a, b) == IF a <= b THEN a ELSE b

\* the slice left out: the whole list
Take_NoCut(s, n) == s

\* s[:n] for n >= 0
Take(s, n) == SubSeq(s, 1, Min2(n, Len(s)))

\* tuple comparison (score, idx) > (score, idx)
PairGT(a, b) == a[1] > b[1] \/ (a[1] = b[1] /\ a[2] > b[2])

RECURSIVE InsertDesc(_, _)
\* x goes in front of the first element that is not greater than x
InsertDesc(x, sorted) ==
    IF sorted = << >> THEN << x >>
    ELSE IF PairGT(Head(sorted), x)
         THEN << Head(sorted) >> \o InsertDesc(x, Tail(sorted))
         ELSE << x >> \o sorted

\* the sort left out
SortDesc_Unsorted(s) == s

RECURSIVE SortDesc(_)
\* list.sort(reverse=True) on a list of (number, idx) tuples; the sort is
\* stable, equal tuples keep their order
SortDesc(s) ==
    IF s = << >> THEN << >> ELSE InsertDesc(Head(s), SortDesc(Tail(s)))

\* dict(kvs) for a list of (key, value) tuples: the keys are the first
\* components, and the last entry of a key is the one that stays
PyDict(kvs) ==
    [ x \in { kvs[k][1] : k \in 1..Len(kvs) } |->
        LET last == CHOOSE k \in 1..Len(kvs) :
                       /\ kvs[k][1] = x
                       /\ \A j \in (k + 1)..Len(kvs) : kvs[j][1] # x
        IN  kvs[last][2] ]

\* d.get(key, default)
DictGet(d, key, default) == IF key \in DOMAIN d THEN d[key] ELSE default

Swap(pairs) == [ k \in 1..Len(pairs) |-> << pairs[k][2], pairs[k][1] >> ]

RECURSIVE Concat(_)
Concat(ss) == IF ss = << >> THEN << >> ELSE Head(ss) \o Concat(Tail(ss))

\* all lists of n distinct elements of the set S
RECURSIVE Arrangements(_, _)
Arrangements(S, n) ==
    IF n = 0 THEN { << >> }
    ELSE UNION { { << x >> \o t : t \in Arrangements(S \ {x}, n - 1) } : x \in S }

\* the filter left out: the list stays as it was
NotIn_Unfiltered(unlabeled, chosen) == unlabeled

\* [idx for idx in unlabeled if idx not in chosen]
RECURSIVE NotIn(_, _)
NotIn(unlabeled, chosen) ==
    IF unlabeled = << >> THEN << >>
    ELSE IF Head(unlabeled) \in SeqSet(chosen)
         THEN NotIn(Tail(unlabeled), chosen)
         ELSE << Head(unlabeled) >> \o NotIn(Tail(unlabeled), chosen)

\* assignment in place of extend: the earlier labels are lost
Extend_Assigns(labeled, batch) == batch

\* labeled_indices.extend(new_batch_indices)
Extend(labeled, batch) == labeled \o batch

----------------------------------------------------------------------------
(* Scoring and batch selection *)

Returned(v) == [ kind |-> "return", value |-> v, warnings |-> << >> ]
Raised(e) == [ kind |-> "raise", value |-> e, warnings |-> << >> ]

\* one (score, idx) per given index, in the given order; f[idx] is the sum
\* of squared gradients the model yields for sample idx
get_fisher_information_scores(f, unlabeled) ==
    [ k \in 1..Len(unlabeled) |-> << f[unlabeled[k]], unlabeled[k] >> ]

\* q[idx] is the committee's mean per-pixel variance on sample idx; on an
\* empty list numpy's mean(axis=(1, 2)) of a 1-d array raises AxisError
get_qbc_scores(q, unlabeled) ==
    IF unlabeled = << >> THEN Raised("AxisError")
    ELSE Returned([ k \in 1..Len(unlabeled) |-> << q[unlabeled[k]], unlabeled[k] >> ])

\* u[idx] is the mean per-pixel entropy of the model on sample idx
get_uncertainty_scores(u, unlabeled) ==
    [ k \in 1..Len(unlabeled) |-> << u[unlabeled[k]], unlabeled[k] >> ]

\* QBC: every member's list appended, sorted descending, collapsed into
\* {idx: score}
FisherDictQBC(fs, unlabeled) ==
    LET all == Concat([ m \in 1..Len(fs) |->
                          get_fisher_information_scores(fs[m], unlabeled) ])
    IN  PyDict(Swap(SortDesc(all)))

\* combined (score, idx) list, sorted, first batch_size indices
RankAndCut(fdict, sdict, unlabeled, batch_size) ==
    LET combined == [ k \in 1..Len(unlabeled) |->
                        << fisher_weight * DictGet(fdict, unlabeled[k], 0)
                             + secondary_weight * DictGet(sdict, unlabeled[k], 0),
                           unlabeled[k] >> ]
        ranked == SortDesc(combined)
        top == Take(ranked, batch_size)
    IN  [ k \in 1..Len(top) |-> top[k][2] ]

FinishQBC(fdict, q, unlabeled, batch_size) ==
    LET qs == get_qbc_scores(q, unlabeled)
    IN  IF qs.kind = "raise" THEN qs
        ELSE Returned(RankAndCut(fdict, PyDict(Swap(qs.value)), unlabeled, batch_size))

select_batch_using_fisher_and_qbc(fs, q, unlabeled, batch_size) ==
    FinishQBC(FisherDictQBC(fs, unlabeled), q, unlabeled, batch_size)

\* uncertainty variant: dict() is applied to the (score, idx) lists as they
\* are, so the dicts are keyed by score and hold an index
FinishUnc(flist, u, unlabeled, batch_size) ==
    Returned(RankAndCut(PyDict(flist),
                        PyDict(get_uncertainty_scores(u, unlabeled)),
                        unlabeled, batch_size))

select_batch_using_fisher_and_uncertainty(f, u, unlabeled, query_size) ==
    FinishUnc(get_fisher_information_scores(f, unlabeled), u, unlabeled, query_size)

----------------------------------------------------------------------------
(* Model objects and the trainer *)

NoTrain == [ call |-> "none", sim |-> -1, i |-> -1, on |-> << >> ]

\* the value None of warm_model
NoModel == [ id |-> 0, dev |-> "none", trained |-> 0, last |-> NoTrain ]

\* smp.Unet(...).to(device): pretrained encoder, new head, never trained
FreshModel(id) == [ id |-> id, dev |-> device, trained |-> 0, last |-> NoTrain ]

create_committee(n_models, firstId) ==
    [ m \in 1..n_models |-> FreshModel(firstId + m - 1) ]

\* a Dice value, named by the trainer call that computed it
DiceOf(tag, metric, n) ==
    [ call |-> tag.call, sim |-> tag.sim, i |-> tag.i, metric |-> metric, n |-> n ]

NoDice == [ train |-> DiceOf(NoTrain, "train", 0), test |-> DiceOf(NoTrain, "test", 0) ]

\* the trainer with a loader that takes an empty subset
evaluate_model_on_subset_NoLoaderCheck(subset_indices, warm, tag, newId) ==
    LET model == IF warm # NoModel THEN warm ELSE FreshModel(newId)
    IN  IF model.dev # device
        THEN [ kind |-> "raise", value |-> "RuntimeError" ]
        ELSE [ kind |-> "return",
               model |-> [ model EXCEPT !.trained = @ + 1,
                                        !.last = [ call |-> tag.call, sim |-> tag.sim,
                                                   i |-> tag.i, on |-> subset_indices ] ],
               train_dice |-> DiceOf(tag, "train", Len(subset_indices)),
               test_dice |-> DiceOf(tag, "test", Len(subset_indices)) ]

\* DataLoader(subset, batch_size=4, shuffle=True) of an empty subset raises
\* ValueError (the random sampler wants a positive number of samples);
\* then: trains `warm` in place, or a model constructed here when warm is
\* None; the batches are moved to `device`, the model is used where it is
evaluate_model_on_subset(subset_indices, warm, tag, newId) ==
    LET model == IF warm # NoModel THEN warm ELSE FreshModel(newId)
    IN  IF subset_indices = << >>
        THEN [ kind |-> "raise", value |-> "ValueError" ]
        ELSE IF model.dev # device
        THEN [ kind |-> "raise", value |-> "RuntimeError" ]
        ELSE [ kind |-> "return",
               model |-> [ model EXCEPT !.trained = @ + 1,
                                        !.last = [ call |-> tag.call, sim |-> tag.sim,
                                                   i |-> tag.i, on |-> subset_indices ] ],
               train_dice |-> DiceOf(tag, "train", Len(subset_indices)),
               test_dice |-> DiceOf(tag, "test", Len(subset_indices)) ]

Pixels == 1..NPixels

\* a model output on a pixel, in units of 1/Scale
Scale == 10000

ProbGrid == { 0, Scale \div 2, Scale }

RECURSIVE SumOver(_, _)
\* tensor.sum()
SumOver(f, S) ==
    IF S = {} THEN 0
    ELSE LET x == CHOOSE y \in S : TRUE IN f[x] + SumOver(f, S \ {x})

\* (preds > 0.5).float()
Threshold(preds) == [ x \in DOMAIN preds |-> IF 2 * preds[x] > Scale THEN 1 ELSE 0 ]

\* the Dice of one evaluation batch: (2 * intersection) / (union + 1e-8), as
\* the fraction num / den of two whole numbers of 1e-8
DiceOfBatch(preds, masks) ==
    LET preds_bin == Threshold(preds)
        intersection == SumOver([ x \in DOMAIN preds |-> preds_bin[x] * masks[x] ],
                                DOMAIN preds)
        union == SumOver(preds_bin, DOMAIN preds) + SumOver(masks, DOMAIN masks)
    IN  [ pred_sum |-> SumOver(preds_bin, DOMAIN preds),
          mask_sum |-> SumOver(masks, DOMAIN masks),
          dice |-> [ num |-> 2 * intersection * DiceUnit,
                     den |-> union * DiceUnit + 1 ] ]

\* np.mean of a list of Dice values; nan for the empty list
NpMean(scores) == IF scores = << >> THEN "nan" ELSE [ mean_of |-> scores ]

\* batches a loader of batch_size 4 yields for n samples
NumBatches(n) == (n + LoaderBatch - 1) \div LoaderBatch

\* d.setdefault(key, []).append(v)
SetDefaultAppend(d, key, v) ==
    [ k \in (DOMAIN d) \cup {key} |->
        IF k = key THEN Append(DictGet(d, key, << >>), v) ELSE d[k] ]

----------------------------------------------------------------------------
(* The schedule *)

\* range(initial_size, max_size, batch_size): the end taken as exclusive
dataset_sizes_Exclusive ==
    IF cfg.max_size <= cfg.initial_size THEN << >>
    ELSE [ k \in 1..((cfg.max_size - 1 - cfg.initial_size) \div cfg.batch_size + 1) |->
             cfg.initial_size + (k - 1) * cfg.batch_size ]

\* list(range(initial_size, max_size + 1, batch_size))
dataset_sizes ==
    IF cfg.max_size < cfg.initial_size THEN << >>
    ELSE [ k \in 1..((cfg.max_size - cfg.initial_size) \div cfg.batch_size + 1) |->
             cfg.initial_size + (k - 1) * cfg.batch_size ]

all_indices == [ k \in 1..cfg.pool |-> k - 1 ]

size == dataset_sizes[i + 1]

\* only the batch added last
current_subset_NewestBatch ==
    SubSeq(labeled_indices,
           Len(labeled_indices) - Min2(cfg.batch_size, Len(labeled_indices)) + 1,
           Len(labeled_indices))

\* current_subset = labeled_indices
current_subset == labeled_indices

reset_model == USE_WARM_START /\ RESET_EVERY_N > 0 /\ i % RESET_EVERY_N = 0

Tag(call) == [ call |-> call, sim |-> sim, i |-> i ]

\* what the networks may yield on the unlabeled samples: a Fisher score and
\* a secondary score per sample. Two levels of each give three levels of the
\* combined score.
AllDraws ==
    LET S == SeqSet(unlabeled_indices)
    IN  [ S -> {0, 1} ] \X [ S -> {0, 1} ]

\* pool of 10: two score maps per SELECT
E2EDraws ==
    LET S == SeqSet(unlabeled_indices)
        zero == [ x \in S |-> 0 ]
        first == [ x \in S |-> IF x = Head(unlabeled_indices) THEN 1 ELSE 0 ]
    IN  { << zero, zero >>, << first, zero >> }

----------------------------------------------------------------------------
(* The simulation loop *)

NoSelect ==
    [ pc |-> "off", variant |-> "none", unlabeled |-> << >>, K |-> 0,
      fisher |-> << >>, fscore |-> << >>, split |-> FALSE, second |-> << >>,
      out |-> Returned(<< >>) ]

InitLoop(configs) ==
    /\ variant \in Variants
    /\ device \in Devices
    /\ cfg \in configs
    /\ pc = "sim"
    /\ sim = 0
    /\ i = 0
    /\ labeled_indices = << >>
    /\ unlabeled_indices = << >>
    /\ warm_model = NoModel
    /\ committee = IF variant = "qbc" THEN create_committee(CommitteeSize, 1) ELSE << >>
    /\ nextId = IF variant = "qbc" THEN CommitteeSize + 1 ELSE 1
    /\ dice = NoDice
    /\ train_results = << >>
    /\ test_results = << >>
    /\ saved = {}
    /\ scoredBy = << >>
    /\ handed = NoModel
    /\ selects = 0
    /\ sb = NoSelect

Configs ==
    [ pool : {PoolSize}, initial_size : 1..MaxInit, batch_size : 1..MaxBatch,
      max_size : 1..PoolSize, n_simulations : {NSims} ]

E2EConfigs ==
    { [ pool |-> E2EPool, initial_size |-> E2EInitial, batch_size |-> E2EBatch,
        max_size |-> E2EMax, n_simulations |-> 1 ] }

Init == InitLoop(Configs)

InitE2E == InitLoop(E2EConfigs)

\* head of `for sim in range(n_simulations)` and the lines before the rounds
StartSim ==
    /\ pc = "sim"
    /\ sim < cfg.n_simulations
    /\ unlabeled_indices' = all_indices
    /\ labeled_indices' = << >>
    /\ IF variant = "qbc"
       THEN /\ committee' = create_committee(CommitteeSize, nextId)
            /\ nextId' = nextId + CommitteeSize
       ELSE UNCHANGED << committee, nextId >>
    /\ warm_model' = NoModel
    /\ i' = 0
    /\ selects' = 0
    /\ scoredBy' = << >>
    /\ handed' = NoModel
    /\ IF dataset_sizes = << >>
       THEN /\ pc' = "sim"
            /\ sim' = sim + 1
       ELSE /\ pc' = "reset"
            /\ sim' = sim
    /\ UNCHANGED << variant, device, cfg, dice, train_results, test_results,
                    saved, sb >>

\* the reset check at the top of a round
ResetCheck ==
    /\ pc = "reset"
    /\ IF variant = "qbc"
       THEN IF reset_model
            THEN /\ warm_model' = NoModel
                 /\ committee' = create_committee(CommitteeSize, nextId)
                 /\ nextId' = nextId + CommitteeSize
            ELSE UNCHANGED << warm_model, committee, nextId >>
       ELSE /\ warm_model' = IF reset_model \/ warm_model = NoModel
                             THEN NoModel ELSE warm_model
            /\ UNCHANGED << committee, nextId >>
    /\ pc' = IF i = 0 THEN "init" ELSE IF variant = "unc" THEN "pretrain" ELSE "select"
    /\ UNCHANGED << variant, device, cfg, sim, i, labeled_indices, unlabeled_indices,
                    dice, train_results, test_results, saved, scoredBy, handed,
                    selects, sb >>

\* round 0: random.sample(unlabeled_indices, initial_size)
InitSample ==
    /\ pc = "init"
    /\ \E s \in Arrangements(SeqSet(unlabeled_indices), cfg.initial_size) :
          /\ labeled_indices' = s
          /\ unlabeled_indices' = NotIn(unlabeled_indices, s)
    /\ pc' = "train"
    /\ UNCHANGED << variant, device, cfg, sim, i, warm_model, committee, nextId,
                    dice, train_results, test_results, saved, scoredBy, handed,
                    selects, sb >>

\* uncertainty variant, rounds i > 0: a new model is trained on the labeled
\* set for the selection
PreTrain ==
    /\ pc = "pretrain"
    /\ LET r == evaluate_model_on_subset(current_subset, NoModel, Tag("pre"), nextId)
       IN  IF r.kind = "raise"
           THEN /\ pc' = "crashed"
                /\ UNCHANGED << warm_model, nextId >>
           ELSE /\ warm_model' = r.model
                /\ nextId' = nextId + 1
                /\ pc' = "select"
    /\ UNCHANGED << variant, device, cfg, sim, i, labeled_indices, unlabeled_indices,
                    committee, dice, train_results, test_results, saved, scoredBy,
                    handed, selects, sb >>

\* the SELECT step: the selector's result is appended to the labeled list
\* and filtered out of the unlabeled list
Selected(r, scorers) ==
    /\ IF r.kind = "raise"
       THEN /\ pc' = "crashed"
            /\ UNCHANGED << labeled_indices, unlabeled_indices >>
       ELSE /\ labeled_indices' = Extend(labeled_indices, r.value)
            /\ unlabeled_indices' = NotIn(unlabeled_indices, r.value)
            /\ pc' = "train"
    /\ scoredBy' = scorers
    /\ selects' = selects + 1
    /\ UNCHANGED << variant, device, cfg, sim, i, warm_model, committee, nextId,
                    dice, train_results, test_results, saved, handed, sb >>

SelectQBC(draws) ==
    /\ pc = "select"
    /\ variant = "qbc"
    /\ \E d \in draws :
          Selected(select_batch_using_fisher_and_qbc(
                       [ m \in 1..Len(committee) |-> d[1] ], d[2],
                       unlabeled_indices, cfg.batch_size),
                   committee)

SelectUnc(draws) ==
    /\ pc = "select"
    /\ variant = "unc"
    /\ \E d \in draws :
          Selected(select_batch_using_fisher_and_uncertainty(
                       d[1], d[2], unlabeled_indices, cfg.batch_size),
                   << warm_model >>)

\* TRAIN+EVAL of the warm model on the whole labeled list
TrainEval ==
    /\ pc = "train"
    /\ LET given == IF USE_WARM_START THEN warm_model ELSE NoModel
           r == evaluate_model_on_subset(current_subset, given, Tag("train_eval"), nextId)
       IN  /\ handed' = given
           /\ IF r.kind = "raise"
              THEN /\ pc' = "crashed"
                   /\ UNCHANGED << warm_model, nextId, dice >>
              ELSE /\ warm_model' = r.model
                   /\ nextId' = IF given = NoModel THEN nextId + 1 ELSE nextId
                   /\ dice' = [ train |-> r.train_dice, test |-> r.test_dice ]
                   /\ pc' = IF variant = "qbc" THEN "committee" ELSE "save"
    /\ UNCHANGED << variant, device, cfg, sim, i, labeled_indices, unlabeled_indices,
                    committee, train_results, test_results, saved, scoredBy,
                    selects, sb >>

\* the committee calls bound to train_dice, test_dice
TrainCommittee_RebindsDice ==
    /\ pc = "committee"
    /\ LET rs == [ m \in 1..Len(committee) |->
                     evaluate_model_on_subset(current_subset, committee[m],
                                              Tag("committee"), nextId) ]
       IN  IF \E m \in 1..Len(committee) : rs[m].kind = "raise"
           THEN /\ pc' = "crashed"
                /\ UNCHANGED << committee, dice >>
           ELSE /\ committee' = [ m \in 1..Len(committee) |-> rs[m].model ]
                /\ dice' = [ train |-> rs[Len(committee)].train_dice,
                             test |-> rs[Len(committee)].test_dice ]
                /\ pc' = "save"
    /\ UNCHANGED << variant, device, cfg, sim, i, labeled_indices, unlabeled_indices,
                    warm_model, nextId, train_results, test_results, saved,
                    scoredBy, handed, selects, sb >>

\* QBC: every committee member is trained on the labeled list; what the
\* calls return is dropped
TrainCommittee ==
    /\ pc = "committee"
    /\ LET rs == [ m \in 1..Len(committee) |->
                     evaluate_model_on_subset(current_subset, committee[m],
                                              Tag("committee"), nextId) ]
       IN  IF \E m \in 1..Len(committee) : rs[m].kind = "raise"
           THEN /\ pc' = "crashed"
                /\ UNCHANGED committee
           ELSE /\ committee' = [ m \in 1..Len(committee) |-> rs[m].model ]
                /\ pc' = "save"
    /\ UNCHANGED << variant, device, cfg, sim, i, labeled_indices, unlabeled_indices,
                    warm_model, nextId, dice, train_results, test_results, saved,
                    scoredBy, handed, selects, sb >>

\* end of the round: the checkpoint (warm_model.to('cpu') moves the model
\* object itself), the two result tables, the next round or simulation
SaveAndRecord ==
    /\ pc = "save"
    /\ warm_model' = [ warm_model EXCEPT !.dev = "cpu" ]
    /\ saved' = saved \cup { << sim, size >> }
    /\ train_results' = SetDefaultAppend(train_results, size, dice.train)
    /\ test_results' = SetDefaultAppend(test_results, size, dice.test)
    /\ IF i + 1 < Len(dataset_sizes)
       THEN /\ i' = i + 1
            /\ pc' = "reset"
            /\ sim' = sim
       ELSE /\ i' = i
            /\ pc' = "sim"
            /\ sim' = sim + 1
    /\ UNCHANGED << variant, device, cfg, labeled_indices, unlabeled_indices,
                    committee, nextId, dice, scoredBy, handed, selects, sb >>

\* the loop over the simulations is exhausted
Finish ==
    /\ pc = "sim"
    /\ sim = cfg.n_simulations
    /\ pc' = "done"
    /\ UNCHANGED << variant, device, cfg, sim, i, labeled_indices, unlabeled_indices,
                    warm_model, committee, nextId, dice, train_results,
                    test_results, saved, scoredBy, handed, selects, sb >>

Next ==
    \/ StartSim
    \/ ResetCheck
    \/ InitSample
    \/ PreTrain
    \/ SelectQBC(AllDraws)
    \/ SelectUnc(AllDraws)
    \/ TrainEval
    \/ TrainCommittee
    \/ SaveAndRecord
    \/ Finish

Spec == Init /\ [][Next]_vars

NextE2E ==
    \/ StartSim
    \/ ResetCheck
    \/ InitSample
    \/ PreTrain
    \/ SelectQBC(E2EDraws)
    \/ SelectUnc(E2EDraws)
    \/ TrainEval
    \/ TrainCommittee
    \/ SaveAndRecord
    \/ Finish

SpecE2E == InitE2E /\ [][NextE2E]_vars

----------------------------------------------------------------------------
(* One call of a batch selector *)

Scores == 0..MaxScore

MinOf(S) == CHOOSE x \in S : \A y \in S : x <= y

UnlabeledLists ==
    UNION { Arrangements(0..MaxIdx, n) : n \in 0..MaxLen }

InitSelect ==
    /\ variant = "none"
    /\ device = "cpu"
    /\ cfg = [ pool |-> 0, initial_size |-> 0, batch_size |-> 0, max_size |-> 0,
               n_simulations |-> 0 ]
    /\ pc = "off"
    /\ sim = 0
    /\ i = 0
    /\ labeled_indices = << >>
    /\ unlabeled_indices = << >>
    /\ warm_model = NoModel
    /\ committee = << >>
    /\ nextId = 1
    /\ dice = NoDice
    /\ train_results = << >>
    /\ test_results = << >>
    /\ saved = {}
    /\ scoredBy = << >>
    /\ handed = NoModel
    /\ selects = 0
    /\ \E v \in Variants, u \in UnlabeledLists, k \in 0..MaxK :
          sb = [ NoSelect EXCEPT !.pc = "call", !.variant = v, !.unlabeled = u, !.K = k ]

\* the Fisher scores of the call: in the QBC selector one list per committee
\* member, collapsed into a dict; in the uncertainty selector the one list
SelectFisher ==
    /\ sb.pc = "call"
    /\ LET S == SeqSet(sb.unlabeled)
       IN  IF sb.variant = "qbc"
           THEN \E fs \in [ 1..CommitteeSize -> [ S -> Scores ] ] :
                   sb' = [ sb EXCEPT
                             !.pc = "fisher",
                             !.fisher = FisherDictQBC(fs, sb.unlabeled),
                             !.fscore = [ x \in S |->
                                            MinOf({ fs[m][x] : m \in 1..CommitteeSize }) ],
                             !.split = \E x \in S : \E m \in 1..CommitteeSize :
                                          fs[m][x] # fs[1][x] ]
           ELSE \E f \in [ S -> Scores ] :
                   sb' = [ sb EXCEPT
                             !.pc = "fisher",
                             !.fisher = get_fisher_information_scores(f, sb.unlabeled),
                             !.fscore = f ]
    /\ UNCHANGED loopVars

\* the secondary scores, the combined ranking and the cut to batch_size
SelectFinish ==
    /\ sb.pc = "fisher"
    /\ \E s \in [ SeqSet(sb.unlabeled) -> Scores ] :
          sb' = [ sb EXCEPT
                    !.pc = "done",
                    !.second = s,
                    !.out = IF sb.variant = "qbc"
                            THEN FinishQBC(sb.fisher, s, sb.unlabeled, sb.K)
                            ELSE FinishUnc(sb.fisher, s, sb.unlabeled, sb.K) ]
    /\ UNCHANGED loopVars

NextSelect ==
    \/ SelectFisher
    \/ SelectFinish

SpecSelect == InitSelect /\ [][NextSelect]_vars

----------------------------------------------------------------------------
(* One call of the trainer *)

\* the simulation loop is not running
LoopIdle ==
    /\ variant = "none"
    /\ cfg = [ pool |-> 0, initial_size |-> 0, batch_size |-> 0, max_size |-> 0,
               n_simulations |-> 0 ]
    /\ pc = "off"
    /\ sim = 0
    /\ i = 0
    /\ labeled_indices = << >>
    /\ unlabeled_indices = << >>
    /\ warm_model = NoModel
    /\ committee = << >>
    /\ nextId = 1
    /\ dice = NoDice
    /\ train_results = << >>
    /\ test_results = << >>
    /\ saved = {}
    /\ scoredBy = << >>
    /\ handed = NoModel
    /\ selects = 0

NoBatch == [ pred_sum |-> -1, mask_sum |-> -1, dice |-> [ num |-> 0, den |-> 0 ] ]

\* the lists the trainer is called with: the first n indices, n from 0
TrainerSubsets == { [ k \in 1..n |-> k - 1 ] : n \in 0..MaxLen }

InitTrainer ==
    /\ LoopIdle
    /\ device \in Devices
    /\ \E subset \in TrainerSubsets,
          warm \in { NoModel } \cup
                   { [ id |-> 9, dev |-> d, trained |-> 1, last |-> NoTrain ] : d \in Devices } :
          sb = [ pc |-> "call", subset |-> subset, warm |-> warm, model |-> NoModel,
                 last |-> NoBatch, train_dice_scores |-> << >>,
                 test_dice_scores |-> << >>, out |-> [ kind |-> "none" ] ]

\* the loader, the model and the training epochs
TrainerTrain ==
    /\ sb.pc = "call"
    /\ LET r == evaluate_model_on_subset(sb.subset, sb.warm, Tag("train_eval"), nextId)
       IN  IF r.kind = "raise"
           THEN sb' = [ sb EXCEPT !.pc = "done", !.out = r ]
           ELSE sb' = [ sb EXCEPT !.pc = "eval_train", !.model = r.model ]
    /\ UNCHANGED loopVars

\* one batch of the evaluation on the training subset
TrainerEvalTrain ==
    /\ sb.pc = "eval_train"
    /\ Len(sb.train_dice_scores) < NumBatches(Len(sb.subset))
    /\ \E preds \in [ Pixels -> ProbGrid ], masks \in [ Pixels -> {0, 1} ] :
          LET b == DiceOfBatch(preds, masks)
          IN  sb' = [ sb EXCEPT !.last = b,
                                !.train_dice_scores = Append(@, b.dice) ]
    /\ UNCHANGED loopVars

\* one batch (one sample) of the evaluation on the test set
TrainerEvalTest ==
    /\ sb.pc \in {"eval_train", "eval_test"}
    /\ Len(sb.train_dice_scores) = NumBatches(Len(sb.subset))
    /\ Len(sb.test_dice_scores) < MaxTest
    /\ \E preds \in [ Pixels -> ProbGrid ], masks \in [ Pixels -> {0, 1} ] :
          LET b == DiceOfBatch(preds, masks)
          IN  sb' = [ sb EXCEPT !.pc = "eval_test", !.last = b,
                                !.test_dice_scores = Append(@, b.dice) ]
    /\ UNCHANGED loopVars

\* return final_train_dice, final_test_dice, model
TrainerReturn ==
    /\ sb.pc = "eval_test"
    /\ Len(sb.test_dice_scores) = MaxTest
    /\ sb' = [ sb EXCEPT !.pc = "done",
                         !.out = [ kind |-> "return",
                                   train_dice |-> NpMean(sb.train_dice_scores),
                                   test_dice |-> NpMean(sb.test_dice_scores),
                                   model |-> sb.model ] ]
    /\ UNCHANGED loopVars

NextTrainer ==
    \/ TrainerTrain
    \/ TrainerEvalTrain
    \/ TrainerEvalTest
    \/ TrainerReturn

SpecTrainer == InitTrainer /\ [][NextTrainer]_vars

----------------------------------------------------------------------------
(* The scoring functions, sample by sample *)

\* the parameters of the network
Params == {"w", "b"}

Grads == [ Params -> (0 - MaxGrad)..MaxGrad ]

\* zero_grad left out
zero_grad_Keeps(grad) == grad

\* model.zero_grad()
zero_grad(grad) == [ q \in Params |-> 0 ]

\* loss.backward(): the sample's gradient is added to param.grad
backward(grad, g) == [ q \in Params |-> grad[q] + g[q] ]

\* sum of (param.grad ** 2).sum() over the parameters
SquaredGradSum(grad) == SumOver([ q \in Params |-> grad[q] * grad[q] ], Params)

\* terms of the series below
ExpTerms == 8
LnTerms == 25

RECURSIVE ExpNegFrom(_, _)
\* e^(-x) = 1 - x/1 (1 - x/2 (1 - x/3 ( ... ))), x in units of 1/Scale
ExpNegFrom(x, k) ==
    IF k > ExpTerms THEN Scale
    ELSE Scale - (x * ExpNegFrom(x, k + 1)) \div (k * Scale)

\* tensor.sigmoid(): 1 / (1 + e^(-x)), for x in 0..Scale
Sigmoid(x) == (Scale * Scale) \div (Scale + ExpNegFrom(x, 1))

RECURSIVE AtanhFrom(_, _, _)
\* w + w^3/3 + w^5/5 + ..., pw = w^k
AtanhFrom(w, pw, k) ==
    IF k > LnTerms \/ pw = 0 THEN 0
    ELSE pw \div k + AtanhFrom(w, (((pw * w) \div Scale) * w) \div Scale, k + 2)

\* -np.log(q + epsilon) for q in 1..Scale, as 2 atanh((1 - q) / (1 + q)); the
\* epsilon of 1e-10 is below 1/Scale. The series is within 1/1000 for
\* q >= Scale / 4, where the sigmoid of a probability and its complement lie.
NegLn(q) ==
    LET w == ((Scale - q) * Scale) \div (Scale + q)
    IN  2 * AtanhFrom(w, w, 1)

\* -probs * np.log(probs + epsilon) - (1 - probs) * np.log(1 - probs + epsilon)
PixelEntropy(probs) ==
    (probs * NegLn(probs) + (Scale - probs) * NegLn(Scale - probs)) \div Scale

\* one sample of get_uncertainty_scores: the model's output map goes through
\* .sigmoid(), then the mean of the pixel entropies
uncertainty_of(output) ==
    LET probs == [ x \in DOMAIN output |-> Sigmoid(output[x]) ]
    IN  SumOver([ x \in DOMAIN output |-> PixelEntropy(probs[x]) ], DOMAIN output)
          \div Cardinality(DOMAIN output)

InitScores ==
    /\ LoopIdle
    /\ device = "cpu"
    /\ \E fn \in {"fisher", "uncertainty"}, u \in UnlabeledLists, grad \in Grads :
          /\ fn = "uncertainty" => grad = [ q \in Params |-> 0 ]
          /\ sb = [ pc |-> fn, fn |-> fn, unlabeled |-> u, grad |-> grad,
                    alone |-> << >>, output |-> << >>, out |-> << >> ]

\* one pass of the loop of get_fisher_information_scores
FisherSample ==
    /\ sb.pc = "fisher"
    /\ Len(sb.out) < Len(sb.unlabeled)
    /\ \E g \in Grads :
          LET idx == sb.unlabeled[Len(sb.out) + 1]
              grad == backward(zero_grad(sb.grad), g)
          IN  sb' = [ sb EXCEPT !.grad = grad,
                                !.alone = Append(@, SquaredGradSum(g)),
                                !.out = Append(@, << SquaredGradSum(grad), idx >>) ]
    /\ UNCHANGED loopVars

\* one pass of the loop of get_uncertainty_scores
UncertaintySample ==
    /\ sb.pc = "uncertainty"
    /\ Len(sb.out) < Len(sb.unlabeled)
    /\ \E output \in [ Pixels -> ProbGrid ] :
          LET idx == sb.unlabeled[Len(sb.out) + 1]
          IN  sb' = [ sb EXCEPT !.output = output,
                                !.out = Append(@, << uncertainty_of(output), idx >>) ]
    /\ UNCHANGED loopVars

\* return fisher_scores / return uncertainties
ScoresReturn ==
    /\ sb.pc \in {"fisher", "uncertainty"}
    /\ Len(sb.out) = Len(sb.unlabeled)
    /\ sb' = [ sb EXCEPT !.pc = "done" ]
    /\ UNCHANGED loopVars

NextScores ==
    \/ FisherSample
    \/ UncertaintySample
    \/ ScoresReturn

SpecScores == InitScores /\ [][NextScores]_vars

----------------------------------------------------------------------------
(* Properties of the simulation loop *)

Started == pc # "sim" \/ sim > 0

Ended == pc \in {"done", "crashed"}

\* the simulation loop has just recorded the last round of a simulation
LastRoundRecorded == pc = "sim" /\ sim > 0 /\ dataset_sizes # << >>

LastSize ==
    cfg.initial_size
      + ((cfg.max_size - cfg.initial_size) \div cfg.batch_size) * cfg.batch_size

\* C1: once a simulation has started, the labeled and the unlabeled list are
\* disjoint, together they hold exactly the indices of the pool, and neither
\* holds an index twice.
C1_Partition ==
    Started =>
        /\ SeqSet(labeled_indices) \cap SeqSet(unlabeled_indices) = {}
        /\ SeqSet(labeled_indices) \cup SeqSet(unlabeled_indices) = SeqSet(all_indices)
        /\ NoDup(labeled_indices)
        /\ NoDup(unlabeled_indices)

\* a SELECT round has moved a batch from the unlabeled to the labeled list
C1_Witness ==
    /\ pc = "train"
    /\ selects > 0
    /\ Len(labeled_indices) > cfg.initial_size
    /\ unlabeled_indices # << >>

\* C2: within a simulation no step removes an index from the labeled list,
\* and no step puts a labeled index into the unlabeled list.
C2_LabeledOnlyGrows ==
    [][ pc # "sim" =>
          /\ SeqSet(labeled_indices) \subseteq SeqSet(labeled_indices')
          /\ SeqSet(labeled_indices) \cap SeqSet(unlabeled_indices') = {} ]_vars

\* the second SELECT of a simulation has extended a list that SELECT had
\* extended before
C2_Witness ==
    /\ pc = "train"
    /\ selects > 1
    /\ Len(labeled_indices) = cfg.initial_size + selects * cfg.batch_size

\* C6: in the scenario pool 10, initial_size 1, batch_size 1, max_size 8, one
\* simulation, the run ends with 8 SELECT rounds executed, 8 labeled indices
\* and result tables of 8 entries (sizes 1..8), one train and one test Dice
\* each.
C6_EndToEnd ==
    Ended =>
        /\ selects = E2EMax
        /\ Len(labeled_indices) = E2EMax
        /\ DOMAIN train_results = 1..E2EMax
        /\ DOMAIN test_results = 1..E2EMax
        /\ \A s \in 1..E2EMax : Len(train_results[s]) = 1 /\ Len(test_results[s]) = 1

\* C7 as claimed: with initial_size <= max_size, when the last round of a
\* simulation is recorded the labeled list has max_size elements.
C7_StopsAtMaxSize ==
    (LastRoundRecorded /\ cfg.initial_size <= cfg.max_size) =>
        Len(labeled_indices) = cfg.max_size

\* steps the script can still take: one to enter a simulation, at most six
\* in a round, one to leave the loop; none once it has ended
StepsLeft ==
    LET rounds == Len(dataset_sizes)
        perSim == 6 * rounds + 1
        inRound == CASE pc = "reset" -> 6
                     [] pc = "pretrain" -> 5
                     [] pc = "init" -> 4
                     [] pc = "select" -> 4
                     [] pc = "train" -> 3
                     [] pc = "committee" -> 2
                     [] OTHER -> 1
    IN  IF Ended THEN 0
        ELSE IF pc = "sim" THEN 1 + (cfg.n_simulations - sim) * perSim
        ELSE 1 + (cfg.n_simulations - sim - 1) * perSim + (rounds - i - 1) * 6 + inRound

\* C7 amended: the run ends (every step lowers the number of steps left,
\* which never falls below 0), and when the last round of a simulation is
\* recorded the labeled list has the last scheduled size, which is at most
\* max_size and more than max_size - batch_size.
C7_StopsAtLastSize ==
    /\ [][StepsLeft' < StepsLeft]_vars
    /\ [](StepsLeft >= 0)
    /\ [](LastRoundRecorded =>
            /\ Len(labeled_indices) = LastSize
            /\ LastSize <= cfg.max_size
            /\ LastSize > cfg.max_size - cfg.batch_size)

\* a simulation has ended below max_size
C7_Witness ==
    /\ LastRoundRecorded
    /\ Len(labeled_indices) = LastSize
    /\ LastSize < cfg.max_size

FromTrainEval(d, s, j, metric) ==
    /\ d.call = "train_eval"
    /\ d.metric = metric
    /\ d.sim = j - 1
    /\ d.i + 1 \in 1..Len(dataset_sizes)
    /\ dataset_sizes[d.i + 1] = s

\* C8: every value in the result tables is the Dice of a TRAIN+EVAL of the
\* warm model, the j-th value under a size that of simulation j at that
\* size; when all simulations are done each table holds n_simulations
\* values under every size of the schedule, and no other key.
C8_Results ==
    /\ \A s \in DOMAIN train_results : \A j \in 1..Len(train_results[s]) :
          FromTrainEval(train_results[s][j], s, j, "train")
    /\ \A s \in DOMAIN test_results : \A j \in 1..Len(test_results[s]) :
          FromTrainEval(test_results[s][j], s, j, "test")
    /\ pc = "done" =>
          /\ DOMAIN train_results = SeqSet(dataset_sizes)
          /\ DOMAIN test_results = SeqSet(dataset_sizes)
          /\ \A s \in SeqSet(dataset_sizes) :
                /\ Len(train_results[s]) = cfg.n_simulations
                /\ Len(test_results[s]) = cfg.n_simulations

\* all simulations are done, each with SELECT rounds, in the variant that
\* trains a committee
C8_Witness ==
    /\ pc = "done"
    /\ cfg.n_simulations > 1
    /\ Len(dataset_sizes) > 1
    /\ variant = "qbc"
    /\ \A m \in 1..Len(committee) : committee[m].trained > 0

\* C9: in a round i > 0 every model that scored the SELECT was last trained
\* by round i-1's TRAIN+EVAL step (the warm model's call or a committee
\* member's), on round i-1's labeled list.
C9_ScoredByPreviousRound ==
    (pc = "train" /\ i > 0) =>
        /\ scoredBy # << >>
        /\ \A k \in 1..Len(scoredBy) :
              /\ scoredBy[k].last.call \in {"train_eval", "committee"}
              /\ scoredBy[k].last.sim = sim
              /\ scoredBy[k].last.i = i - 1
              /\ scoredBy[k].last.on = Take(labeled_indices, dataset_sizes[i])

\* C10: in a round i with i mod RESET_EVERY_N = 0, TRAIN+EVAL is handed no
\* model (it constructs one), and the committee members go untrained into
\* their training.
C10_ResetRoundStartsFresh ==
    (USE_WARM_START /\ RESET_EVERY_N > 0 /\ i % RESET_EVERY_N = 0) =>
        /\ pc \in {"committee", "save"} => handed = NoModel
        /\ pc = "committee" => \A m \in 1..Len(committee) : committee[m].trained = 0

\* C11: in a round i with i mod RESET_EVERY_N # 0, the model handed to
\* TRAIN+EVAL is the instance round i-1's TRAIN+EVAL returned (it was last
\* trained there), the call returns, and it returns that same instance.
C11_WarmModelCarriedOver ==
    (USE_WARM_START /\ RESET_EVERY_N > 0 /\ i % RESET_EVERY_N # 0
       /\ pc \in {"committee", "save", "crashed"}) =>
        /\ handed # NoModel
        /\ handed.last.call = "train_eval"
        /\ handed.last.sim = sim
        /\ handed.last.i = i - 1
        /\ pc # "crashed"
        /\ warm_model.id = handed.id

\* C12: the warm model's TRAIN+EVAL and, in the QBC variant, every committee
\* member's training of a round are given the whole labeled list: every
\* index labeled so far, the batch just selected included.
C12_TrainedOnWholeLabeledSet ==
    /\ pc \in {"committee", "save"} =>
          /\ warm_model.last = [ call |-> "train_eval", sim |-> sim, i |-> i,
                                 on |-> labeled_indices ]
          /\ SeqSet(warm_model.last.on) = SeqSet(all_indices) \ SeqSet(unlabeled_indices)
    /\ (pc = "save" /\ variant = "qbc") =>
          \A m \in 1..Len(committee) :
              committee[m].last = [ call |-> "committee", sim |-> sim, i |-> i,
                                    on |-> labeled_indices ]

\* a QBC round after a SELECT has trained the warm model and the committee on
\* a list longer than the batch
C12_Witness ==
    /\ pc = "save"
    /\ variant = "qbc"
    /\ i > 0
    /\ Len(labeled_indices) > cfg.batch_size
    /\ \A m \in 1..Len(committee) : committee[m].last.on = labeled_indices

\* C17: when TRAIN+EVAL, the checkpoint save and RECORD of round i execute,
\* the labeled list has size = initial_size + i * batch_size elements; every
\* Dice value in the tables stands under the number of samples its model was
\* trained on, and so does every checkpoint.
C17_KeyIsLabeledSize ==
    /\ pc \in {"train", "committee", "save"} =>
          /\ size = cfg.initial_size + i * cfg.batch_size
          /\ Len(labeled_indices) = size
    /\ pc = "save" => /\ Len(warm_model.last.on) = size
                      /\ dice.train.n = size
                      /\ dice.test.n = size
    /\ \A s \in DOMAIN train_results : \A j \in 1..Len(train_results[s]) :
          train_results[s][j].n = s
    /\ \A s \in DOMAIN test_results : \A j \in 1..Len(test_results[s]) :
          test_results[s][j].n = s
    /\ \A c \in saved : \E k \in 1..Len(dataset_sizes) :
          c[2] = dataset_sizes[k] /\ c[2] = cfg.initial_size + (k - 1) * cfg.batch_size

\* a round after the SELECT of a batch of more than one is about to save, in
\* a simulation after the first
C17_Witness ==
    /\ pc = "save"
    /\ sim > 0
    /\ i > 0
    /\ selects = i
    /\ cfg.batch_size > 1
    /\ Len(labeled_indices) = size
    /\ size \in DOMAIN train_results

\* C20: a model that is about to be trained or to score is on `device`: the
\* warm model handed to TRAIN+EVAL, the committee members, and the scorers of
\* a SELECT; no call fails for a model on another device.
C20_ModelOnDevice ==
    /\ (pc = "train" /\ USE_WARM_START /\ warm_model # NoModel) => warm_model.dev = device
    /\ pc \in {"select", "committee"} =>
          \A m \in 1..Len(committee) : committee[m].dev = device
    /\ (pc = "select" /\ variant = "unc") => warm_model.dev = device
    /\ pc # "crashed"

----------------------------------------------------------------------------
(* Properties of the batch selectors *)

Combined(x) == fisher_weight * sb.fscore[x] + secondary_weight * sb.second[x]

\* C3 (the empty list is the case of C5): on a list of distinct unlabeled
\* indices the selector returns min(K, length) of them, none twice, in
\* non-increasing order of the combined score, and no index left out has a
\* greater combined score than one returned.
C3_SelectorContract ==
    (sb.pc = "done" /\ sb.unlabeled # << >>) =>
        /\ sb.out.kind = "return"
        /\ Len(sb.out.value) = Min2(sb.K, Len(sb.unlabeled))
        /\ SeqSet(sb.out.value) \subseteq SeqSet(sb.unlabeled)
        /\ NoDup(sb.out.value)
        /\ \A a, b \in 1..Len(sb.out.value) :
              a < b => Combined(sb.out.value[a]) >= Combined(sb.out.value[b])
        /\ \A x \in SeqSet(sb.unlabeled) \ SeqSet(sb.out.value) :
              \A y \in SeqSet(sb.out.value) : Combined(x) <= Combined(y)

\* C18: in the QBC selector the Fisher value of an index in the map that
\* enters the combined score is the smallest of the committee members'
\* Fisher scores of that index, and the index ranked first has the greatest
\* sum of that minimum and the QBC score.
C18_FisherIsCommitteeMinimum ==
    (sb.variant = "qbc" /\ sb.pc \in {"fisher", "done"}) =>
        /\ DOMAIN sb.fisher = SeqSet(sb.unlabeled)
        /\ \A x \in SeqSet(sb.unlabeled) : sb.fisher[x] = sb.fscore[x]
        /\ (sb.pc = "done" /\ sb.unlabeled # << >> /\ sb.K > 0) =>
              \A x \in SeqSet(sb.unlabeled) : Combined(x) <= Combined(sb.out.value[1])

\* a call with members that disagree on an index, and with indices whose
\* minima differ, has returned a batch
C18_Witness ==
    /\ sb.variant = "qbc"
    /\ sb.pc = "done"
    /\ sb.split
    /\ sb.K > 0
    /\ \E x, y \in SeqSet(sb.unlabeled) : sb.fscore[x] < sb.fscore[y]
    /\ sb.out.kind = "return"

\* the selector called again with the same scores and the unlabeled list in
\* the order p
SelectedFor(p) ==
    IF sb.variant = "qbc"
    THEN FinishQBC(sb.fisher, sb.second, p, sb.K)
    ELSE FinishUnc(get_fisher_information_scores(sb.fscore, p), sb.second, p, sb.K)

\* C19: of two indices with equal combined scores the selector ranks the
\* larger first (and takes it first into the batch), and the batch is the
\* same for every order of the unlabeled list.
C19_TiesByLargerIndex ==
    (sb.pc = "done" /\ sb.unlabeled # << >>) =>
        /\ sb.out.kind = "return"
        /\ \A a, b \in 1..Len(sb.out.value) :
              (a < b /\ Combined(sb.out.value[a]) = Combined(sb.out.value[b]))
                 => sb.out.value[a] > sb.out.value[b]
        /\ \A x \in SeqSet(sb.unlabeled) \ SeqSet(sb.out.value) :
              \A y \in SeqSet(sb.out.value) : Combined(x) = Combined(y) => x < y
        /\ \A p \in Arrangements(SeqSet(sb.unlabeled), Len(sb.unlabeled)) :
              SelectedFor(p) = sb.out

\* C4: asked for more indices than the (non-empty) list holds, the selector
\* returns all of them and tells the caller of the shortfall.
C4_ShortfallSignalled ==
    (sb.pc = "done" /\ sb.unlabeled # << >> /\ sb.K > Len(sb.unlabeled)) =>
        /\ sb.out.kind = "return"
        /\ SeqSet(sb.out.value) = SeqSet(sb.unlabeled)
        /\ sb.out.warnings # << >>

\* C5: on an empty unlabeled list the selector fails; it returns nothing.
C5_EmptyPoolFails ==
    (sb.pc = "done" /\ sb.unlabeled = << >>) => sb.out.kind = "raise"

----------------------------------------------------------------------------
(* Properties of the trainer *)

\* C13: called with an empty list of labeled indices the trainer raises; it
\* evaluates no batch and returns neither Dice values nor a model.
C13_EmptySubsetFails ==
    (sb.subset = << >> /\ sb.pc # "call") =>
        /\ sb.pc = "done"
        /\ sb.out.kind = "raise"
        /\ sb.model = NoModel
        /\ sb.train_dice_scores = << >>
        /\ sb.test_dice_scores = << >>

\* the call on an empty list, with a model to continue, has ended
C13_Witness ==
    /\ sb.subset = << >>
    /\ sb.warm # NoModel
    /\ sb.pc = "done"
    /\ sb.out.kind = "raise"

\* C14: an evaluation batch with no positive pixel in the thresholded
\* prediction and none in the mask has Dice 1.0 (numerator = denominator),
\* and no Dice is 0/0.
C14_EmptyBatchDiceIsOne ==
    sb.last.pred_sum >= 0 =>
        /\ sb.last.dice.den # 0
        /\ (sb.last.pred_sum = 0 /\ sb.last.mask_sum = 0) =>
              sb.last.dice.num = sb.last.dice.den

----------------------------------------------------------------------------
(* Properties of the scoring functions *)

\* C15: get_fisher_information_scores yields, for the k-th given index, the
\* pair (sum of squared gradients of that sample alone, that index), whatever
\* samples came before it and whatever gradients the model held at the call;
\* when it returns there is one pair per given index, in the given order.
C15_FisherScorePerSample ==
    sb.fn = "fisher" =>
        /\ Len(sb.out) <= Len(sb.unlabeled)
        /\ \A k \in 1..Len(sb.out) : sb.out[k] = << sb.alone[k], sb.unlabeled[k] >>
        /\ sb.pc = "done" => Len(sb.out) = Len(sb.unlabeled)

\* the function has returned after scoring a sample that followed a sample
\* with a gradient
C15_Witness ==
    /\ sb.fn = "fisher"
    /\ sb.pc = "done"
    /\ Len(sb.out) >= 2
    /\ sb.alone[1] > 0
    /\ sb.out[2][1] = sb.alone[2]

Ln2 == NegLn(Scale \div 2)

Near == Scale \div 100

\* C16: the uncertainty score of a sample lies in [0, ln 2], is about 0 when
\* every output probability of the model is 0 or 1, and is ln 2, the
\* maximum, when every output probability is 0.5.
C16_EntropyOfOutput ==
    (sb.fn = "uncertainty" /\ sb.out # << >>) =>
        LET u == sb.out[Len(sb.out)][1]
        IN  /\ 0 <= u
            /\ u <= Ln2 + Near
            /\ (\A x \in Pixels : sb.output[x] \in {0, Scale}) => u <= Near
            /\ (\A x \in Pixels : sb.output[x] = Scale \div 2) => u >= Ln2 - Near
            /\ (\E x \in Pixels : sb.output[x] # Scale \div 2) => u < Ln2 - Near

====
